---- MODULE Spec2Model ----
(***************************************************************************)
(* Model of the LLM orchestration layer of FITAI (src/llm.py, src/tools.py) *)
(*                                                                         *)
(*   - LLMHandler.render_llm, summarizer, workout_planner: three prompt    *)
(*     dispatches, each memoised by @st.cache_data(ttl=3600) and each      *)
(*     invoking a chat model that sits on the process-wide SQLite LLM      *)
(*     cache installed by set_llm_cache;                                   *)
(*   - LLMHandler.search_agent: the ReAct agent run by AgentExecutor;      *)
(*   - tools.calculator: eval() wrapped in try/except.                     *)
(***************************************************************************)
EXTENDS Integers, Sequences, FiniteSets, TLC

VARIABLES
    now,         \* wall clock, in seconds
    served,      \* dispatch calls counted against MaxServed (bounded specifications)
    profile,     \* the caller's input records: object id -> its fields
    memo,        \* st.cache_data storage: set of [fn, key, value, at, by]
    llmCache,    \* SQLiteCache(".langchain.db"): set of [llm, prompt, out]
    last,        \* the dispatch call that returned last (history)
    prev,        \* the dispatch call before it (history)
    lastBound,   \* the mapping that call handed to chain.invoke (history)
    streaming,   \* whether the installed AgentExecutor streams the LLM
    agentPc,     \* "idle" | "running" | "returned"
    agentQuery,
    agentIter,   \* iterations the executor has completed in this run
    agentReal,   \* whether the last iteration sent a request to the model provider
    agentObs,    \* the last observation appended to the scratchpad
    agentRet,    \* what search_agent returned
    calcIn,      \* calculator: the expression under evaluation
    calcOut      \* calculator: the outcome of the invocation

vars == <<now, served, profile, memo, llmCache, last, prev, lastBound, streaming,
          agentPc, agentQuery, agentIter, agentReal, agentObs, agentRet,
          calcIn, calcOut>>

dispatchVars == <<memo, llmCache, last, prev, lastBound>>
agentVars == <<agentPc, agentQuery, agentIter, agentReal, agentObs, agentRet>>
calcVars == <<calcIn, calcOut>>

-----------------------------------------------------------------------------
(* Bounds *)

MaxTicks == 3          \* clock advances explored
MaxServed == 2         \* dispatch calls explored where the calls are counted
MaxExpLen == 3         \* tokens in a calculator expression

(* Program constants *)

TTL == 3600            \* @st.cache_data(ttl=3600)
MaxIterations == 15    \* AgentExecutor(...) is built without max_iterations

TimeStep == TTL \div 2
Times == {i * TimeStep : i \in 0..MaxTicks}

-----------------------------------------------------------------------------
(* Input records.  _input_data / info is any object with model_dump(); the  *)
(* templates name the fields of the profile.  "anon" is a record whose dump *)
(* has no 'country'.                                                        *)

ProfileFields == <<"name", "age", "sex", "weight", "height", "goals", "country">>

Pids == {"ana", "ben", "anon"}

InitialProfile ==
    [p \in Pids |->
       CASE p = "ana" -> [name |-> "Ana", age |-> "30", sex |-> "F", weight |-> "60",
                          height |-> "165", goals |-> "lose fat", country |-> "PH"]
         [] p = "ben" -> [name |-> "Ben", age |-> "41", sex |-> "M", weight |-> "82",
                          height |-> "180", goals |-> "gain muscle", country |-> "NG"]
         [] OTHER     -> [name |-> "Anon", age |-> "25", sex |-> "F", weight |-> "55",
                          height |-> "160", goals |-> "endurance"]]

Messages == {"long text A", "long text B"}
Equipments == {"dumbbells", "none"}
Causes == {"timeout", "quota"}    \* why a request to the model provider fails
Variants == {1, 2}                \* completions the model may sample for a prompt

(* Python dict operations on mappings with string keys *)
model_dump(p) == profile[p]
DictCopy(d) == [k \in DOMAIN d |-> d[k]]
DictUpdate(d, key, val) == [k \in (DOMAIN d) \cup {key} |-> IF k = key THEN val ELSE d[k]]
DictDel(d, key) == [k \in (DOMAIN d) \ {key} |-> d[k]]

-----------------------------------------------------------------------------
(* Prompt templates: the placeholders of each human message, in order.      *)

Fns == {"render_llm", "summarizer", "workout_planner"}

Placeholders(fn) ==
    CASE fn = "render_llm"      -> <<"name", "age", "sex", "weight", "height", "goals", "country">>
      [] fn = "summarizer"      -> <<"msg">>
      [] fn = "workout_planner" -> <<"msg", "name", "age", "sex", "weight", "height", "goals">>

Range(s) == {s[i] : i \in 1..Len(s)}

(* ChatPromptTemplate.invoke raises KeyError when a placeholder is unbound  *)
CanFormat(fn, bound) == Range(Placeholders(fn)) \subseteq DOMAIN bound

(* the rendered prompt: the template with each placeholder replaced         *)
Format(fn, bound) ==
    <<fn>> \o [i \in 1..Len(Placeholders(fn)) |-> bound[Placeholders(fn)[i]]]

NoPrompt == <<>>
None == [kind |-> "None", of |-> NoPrompt, v |-> 0]
Text(prompt, v) == [kind |-> "text", of |-> prompt, v |-> v]

-----------------------------------------------------------------------------
(* @st.cache_data(ttl=3600).  The key is the function plus the hash of its  *)
(* arguments, and an argument whose name starts with an underscore is left  *)
(* out of the hash: _self, _input_data and _message are not hashed;         *)
(* equipment and info are (info by the values of its fields).               *)

HashDict(d) ==
    LET present == SelectSeq(ProfileFields, LAMBDA f : f \in DOMAIN d)
    IN  [i \in 1..Len(present) |-> <<present[i], d[present[i]]>>]

CacheKey(fn, msg, info) ==
    CASE fn = "render_llm"      -> <<>>
      [] fn = "summarizer"      -> <<>>
      [] fn = "workout_planner" -> <<<<"equipment", msg>>>> \o HashDict(profile[info])

(* mutant: the age test inverted, so only expired entries are served *)
FreshInverted(e) == now - e.at >= TTL

(* an entry is served until it is ttl seconds old *)
Fresh(e) == now - e.at < TTL

Entries(fn, key) == {e \in memo : e.fn = fn /\ e.key = key}
Hits(fn, key) == {e \in Entries(fn, key) : Fresh(e)}

(* the function stores whatever the body returned, replacing the old entry *)
Store(fn, key, value, msg, info, calls) ==
    (memo \ Entries(fn, key)) \cup
        {[fn |-> fn, key |-> key, value |-> value, at |-> now,
          by |-> [msg |-> msg, info |-> info, calls |-> calls]]}

-----------------------------------------------------------------------------
(* chain.invoke(bound), chain = prompt | self.llm, inside try/except.       *)
(* The prompt is formatted first; the chat model then looks the prompt up   *)
(* in the global LLM cache and only on a miss sends a request, storing the  *)
(* completion when the request succeeds.  Every exception is caught,        *)
(* reported with st.error and turned into the return value None.            *)

Cached(llm, prompt) == {c \in llmCache : c.llm = llm /\ c.prompt = prompt}

Outcome(ret, calls, cache, raised) ==
    [ret |-> ret, calls |-> calls, cache |-> cache, raised |-> raised]

ChainInvoke(fn, bound) ==
    IF ~CanFormat(fn, bound)
    THEN {Outcome(None, 0, llmCache, "KeyError")}
    ELSE LET prompt == Format(fn, bound) IN
         IF Cached("chat", prompt) # {}
         THEN {Outcome(c.out, 0, llmCache, "-") : c \in Cached("chat", prompt)}
         ELSE {Outcome(Text(prompt, v), 1,
                       llmCache \cup {[llm |-> "chat", prompt |-> prompt,
                                     out |-> Text(prompt, v)]}, "-")
                  : v \in Variants}
              \cup {Outcome(None, 1, llmCache, cause) : cause \in Causes}

(* the mapping each function binds to its template *)
RenderBound(info) == model_dump(info)
SummarizerBound(message) == [msg |-> message]
(* mutant: the country is not deleted from the copy *)
WorkoutBoundKeepingCountry(equipment, info) ==
    DictUpdate(DictCopy(model_dump(info)), "msg", equipment)

WorkoutBound(equipment, info) ==
    LET info_copy == DictCopy(model_dump(info))
        updated   == DictUpdate(info_copy, "msg", equipment)
    IN  IF "country" \in DOMAIN updated THEN DictDel(updated, "country") ELSE updated

NoBound == [none |-> "-"]

Call(fn, msg, info, ret, calls, hit, stale, raised) ==
    [op |-> fn, msg |-> msg, info |-> info, at |-> now, ret |-> ret, calls |-> calls,
     hit |-> hit, stale |-> stale, raised |-> raised]

NoCall == Call("-", "-", "-", None, 0, FALSE, FALSE, "-")

(* one call of a memoised function: serve a fresh entry, or run the body    *)
(* and store its return value                                               *)
Memoised(fn, msg, info, bound) ==
    LET key == CacheKey(fn, msg, info) IN
    /\ prev' = last
    /\ IF Hits(fn, key) # {}
       THEN \E e \in Hits(fn, key) :
               /\ last' = Call(fn, msg, info, e.value, 0, TRUE, FALSE, "-")
               /\ lastBound' = NoBound
               /\ UNCHANGED <<memo, llmCache>>
       ELSE \E o \in ChainInvoke(fn, bound) :
               /\ memo' = Store(fn, key, o.ret, msg, info, o.calls)
               /\ llmCache' = o.cache
               /\ last' = Call(fn, msg, info, o.ret, o.calls, FALSE,
                               \E e \in Entries(fn, key) :
                                   /\ e.by.msg = msg /\ e.by.info = info
                                   /\ e.value.kind = "text" /\ now - e.at > TTL,
                               o.raised)
               /\ lastBound' = bound

RenderLlm(info) ==
    /\ Memoised("render_llm", "-", info, RenderBound(info))
    /\ UNCHANGED <<now, profile, streaming, agentVars, calcVars>>

Summarizer(message) ==
    /\ Memoised("summarizer", message, "-", SummarizerBound(message))
    /\ UNCHANGED <<now, profile, streaming, agentVars, calcVars>>

WorkoutPlanner(equipment, info) ==
    /\ Memoised("workout_planner", equipment, info, WorkoutBound(equipment, info))
    /\ UNCHANGED <<now, profile, streaming, agentVars, calcVars>>

Tick ==
    /\ now + TimeStep \in Times
    /\ now' = now + TimeStep
    /\ UNCHANGED <<profile, streaming, dispatchVars, agentVars, calcVars>>

-----------------------------------------------------------------------------
(* tools.calculator: eval(exp), with every Exception turned into its        *)
(* message.  Expressions are token strings over a fragment of Python's      *)
(* expression grammar:                                                      *)
(*     expr  ::= "not" expr | arith                                         *)
(*     arith ::= unary (("+" | "-") unary)*                                 *)
(*     unary ::= ("-" | "+") unary | "2" | "math"                           *)
(* "math" is a name that is not bound in the tool's scope.                  *)

Tokens == {"2", "+", "-", "not", "math"}

RECURSIVE SeqsOfLen(_)
SeqsOfLen(n) ==
    IF n = 0 THEN {<<>>}
    ELSE {Append(s, t) : s \in SeqsOfLen(n - 1), t \in Tokens}

Exprs == UNION {SeqsOfLen(n) : n \in 0..MaxExpLen}

PyInt(n) == [type |-> "int", n |-> n, s |-> ""]
PyBool(b) == [type |-> "bool", n |-> IF b THEN 1 ELSE 0, s |-> ""]
PyStr(s) == [type |-> "str", n |-> 0, s |-> s]

(* a parse: whether it succeeded, the next position, the value, and whether *)
(* evaluating it loads the unbound name                                     *)
Parsed(pos, val, name) == [ok |-> TRUE, pos |-> pos, val |-> val, name |-> name]
NoParse == [ok |-> FALSE, pos |-> 0, val |-> PyInt(0), name |-> FALSE]

RECURSIVE ParseUnary(_, _)
ParseUnary(s, i) ==
    IF i > Len(s) THEN NoParse
    ELSE CASE s[i] = "2"    -> Parsed(i + 1, PyInt(2), FALSE)
           [] s[i] = "math" -> Parsed(i + 1, PyInt(0), TRUE)
           [] s[i] = "+"    -> ParseUnary(s, i + 1)
           [] s[i] = "-"    -> LET r == ParseUnary(s, i + 1)
                               IN  IF r.ok THEN Parsed(r.pos, PyInt(0 - r.val.n), r.name)
                                   ELSE NoParse
           [] OTHER         -> NoParse

RECURSIVE ParseArithRest(_, _)
ParseArithRest(s, left) ==
    IF left.pos <= Len(s) /\ s[left.pos] \in {"+", "-"}
    THEN LET right == ParseUnary(s, left.pos + 1) IN
         IF ~right.ok THEN NoParse
         ELSE ParseArithRest(s,
                Parsed(right.pos,
                       PyInt(IF s[left.pos] = "+" THEN left.val.n + right.val.n
                                                  ELSE left.val.n - right.val.n),
                       left.name \/ right.name))
    ELSE left

ParseArith(s, i) ==
    LET first == ParseUnary(s, i)
    IN  IF first.ok THEN ParseArithRest(s, first) ELSE NoParse

RECURSIVE ParseExpr(_, _)
ParseExpr(s, i) ==
    IF i <= Len(s) /\ s[i] = "not"
    THEN LET r == ParseExpr(s, i + 1)
         IN  IF r.ok THEN Parsed(r.pos, PyBool(r.val.n = 0), r.name) ELSE NoParse
    ELSE ParseArith(s, i)

(* eval(exp): the value, or the exception raised *)
Eval(exp) ==
    LET r == ParseExpr(exp, 1) IN
    IF ~(r.ok /\ r.pos = Len(exp) + 1)
    THEN [raised |-> TRUE, val |-> PyStr("invalid syntax")]
    ELSE IF r.name
    THEN [raised |-> TRUE, val |-> PyStr("name 'math' is not defined")]
    ELSE [raised |-> FALSE, val |-> r.val]

(* try: return eval(exp)  except Exception as e: return str(e) *)
calculator(exp) ==
    LET r == Eval(exp)
    IN  [status |-> "returned", value |-> r.val]

Pending == [status |-> "pending", value |-> PyInt(0)]

Calculate ==
    /\ calcOut = Pending
    /\ calcOut' = calculator(calcIn)
    /\ UNCHANGED <<calcIn, now, profile, streaming, dispatchVars, agentVars>>

-----------------------------------------------------------------------------
(* LLMHandler.search_agent: AgentExecutor(agent, tools=[calculator],        *)
(* handle_parsing_errors=True).invoke({"input": query}) inside try/except.  *)
(*                                                                          *)
(* The executor loops while iterations < max_iterations (15 when the        *)
(* argument is not given); each iteration plans with one LLM call on the    *)
(* prompt "template + query + scratchpad".  A final answer returns its      *)
(* text; an action runs the tool, appends the observation and counts one    *)
(* iteration.  When the loop ends without a final answer the executor       *)
(* returns the stopped response as the output.  An exception of the model   *)
(* leaves invoke and becomes {"error": str(e)}.                             *)
(*                                                                          *)
(* The model's action is always the calculator on the query's expression,   *)
(* so the scratchpad is determined by the number of iterations.             *)
(*                                                                          *)
(* The GoogleGenerativeAI object is created without cache=False.  Whether   *)
(* its calls go through the global LLM cache depends on how the installed   *)
(* executor drives the runnable: invoke() consults the cache, stream()      *)
(* does not.  The variable streaming holds which one the installation does. *)

Queries == {<<"2", "+", "2">>}

StoppedResponse == "Agent stopped due to iteration limit or time limit."

(* the prompt of iteration iter: the question, then one                     *)
(* Action/Observation block per completed iteration                          *)
AgentPrompt(query, iter) == <<"agent">> \o query \o [i \in 1..iter |-> "Observation"]

Completion(kind, prompt) == [kind |-> kind, of |-> prompt, v |-> 0]

Output(text) == [kind |-> "output", text |-> text]
Error(cause) == [kind |-> "error", text |-> cause]
NoRet == [kind |-> "-", text |-> "-"]

Plan(out, real, cache) == [out |-> out, real |-> real, cache |-> cache]

(* one LLM call of the agent: the completion ("final" or "action") or the   *)
(* cause of the failure, whether a request was sent, and the cache after it *)
AgentLlm(prompt) ==
    LET fresh(cache_on) ==
            {Plan(kind, TRUE,
                  IF cache_on
                  THEN llmCache \cup {[llm |-> "llm", prompt |-> prompt,
                                       out |-> Completion(kind, prompt)]}
                  ELSE llmCache) : kind \in {"final", "action"}}
            \cup {Plan(cause, TRUE, llmCache) : cause \in Causes}
    IN  IF streaming THEN fresh(FALSE)
        ELSE IF Cached("llm", prompt) # {}
        THEN {Plan(c.out.kind, FALSE, llmCache) : c \in Cached("llm", prompt)}
        ELSE fresh(TRUE)

AgentStart(query) ==
    /\ agentPc \in {"idle", "returned"}
    /\ agentPc' = "running"
    /\ agentQuery' = query
    /\ agentIter' = 0
    /\ agentReal' = FALSE
    /\ agentObs' = PyStr("")
    /\ agentRet' = NoRet
    /\ UNCHANGED <<now, profile, streaming, dispatchVars, calcVars>>

AgentStep ==
    /\ agentPc = "running"
    /\ agentIter < MaxIterations
    /\ \E p \in AgentLlm(AgentPrompt(agentQuery, agentIter)) :
          /\ llmCache' = p.cache
          /\ agentReal' = p.real
          /\ CASE p.out = "final" ->
                    /\ agentPc' = "returned"
                    /\ agentRet' = Output("final answer")
                    /\ UNCHANGED <<agentIter, agentObs>>
               [] p.out = "action" ->
                    /\ agentObs' = calculator(agentQuery).value
                    /\ agentIter' = agentIter + 1
                    /\ UNCHANGED <<agentPc, agentRet>>
               [] OTHER ->
                    /\ agentPc' = "returned"
                    /\ agentRet' = Error(p.out)
                    /\ UNCHANGED <<agentIter, agentObs>>
    /\ UNCHANGED <<now, profile, streaming, memo, last, prev, lastBound, agentQuery, calcVars>>

AgentStop ==
    /\ agentPc = "running"
    /\ agentIter >= MaxIterations
    /\ agentPc' = "returned"
    /\ agentRet' = Output(StoppedResponse)
    /\ UNCHANGED <<now, profile, streaming, dispatchVars, agentQuery, agentIter,
                   agentReal, agentObs, calcVars>>

-----------------------------------------------------------------------------
(* The process starts with an empty st.cache_data store; .langchain.db      *)
(* is a file that survives restarts and is empty on first start.            *)

Init ==
    /\ now = 0
    /\ served = 0
    /\ profile = InitialProfile
    /\ memo = {}
    /\ llmCache = {}
    /\ last = NoCall
    /\ prev = NoCall
    /\ lastBound = NoBound
    /\ streaming \in BOOLEAN
    /\ agentPc = "idle"
    /\ agentQuery = <<>>
    /\ agentIter = 0
    /\ agentReal = FALSE
    /\ agentObs = PyStr("")
    /\ agentRet = NoRet
    /\ calcIn = <<>>
    /\ calcOut = Pending

(* every memoised dispatch, with the clock; the number of calls is bounded *)
Next ==
    \/ Tick /\ UNCHANGED served
    \/ /\ served < MaxServed
       /\ served' = served + 1
       /\ \/ \E info \in Pids : RenderLlm(info)
          \/ \E message \in Messages : Summarizer(message)
          \/ \E equipment \in Equipments, info \in Pids : WorkoutPlanner(equipment, info)

Spec == Init /\ [][Next]_vars

(* any number of plan generations *)
NextRender ==
    \/ Tick /\ UNCHANGED served
    \/ \E info \in Pids : RenderLlm(info) /\ UNCHANGED served

SpecRender == Init /\ [][NextRender]_vars

(* workout plans only *)
NextWorkout ==
    \/ Tick /\ UNCHANGED served
    \/ /\ served < MaxServed
       /\ served' = served + 1
       /\ \E equipment \in Equipments, info \in Pids : WorkoutPlanner(equipment, info)

SpecWorkout == Init /\ [][NextWorkout]_vars

(* agent runs interleaved with summaries *)
NextAgent ==
    \/ \E query \in Queries : AgentStart(query) /\ UNCHANGED served
    \/ AgentStep /\ UNCHANGED served
    \/ AgentStop /\ UNCHANGED served
    \/ \E message \in Messages : Summarizer(message) /\ UNCHANGED served

SpecAgent == Init /\ [][NextAgent]_vars

(* the calculator as a function of its input *)
InitCalculator ==
    /\ now = 0
    /\ served = 0
    /\ profile = InitialProfile
    /\ memo = {}
    /\ llmCache = {}
    /\ last = NoCall
    /\ prev = NoCall
    /\ lastBound = NoBound
    /\ streaming = TRUE
    /\ agentPc = "idle"
    /\ agentQuery = <<>>
    /\ agentIter = 0
    /\ agentReal = FALSE
    /\ agentObs = PyStr("")
    /\ agentRet = NoRet
    /\ calcIn \in Exprs
    /\ calcOut = Pending

NextCalculator == Calculate /\ UNCHANGED served

SpecCalculator == InitCalculator /\ [][NextCalculator]_vars

-----------------------------------------------------------------------------
(* Properties *)

ValidProfile(info) == Range(ProfileFields) \subseteq DOMAIN profile[info]

BoundOf(call) ==
    CASE call.op = "render_llm"      -> RenderBound(call.info)
      [] call.op = "summarizer"      -> SummarizerBound(call.msg)
      [] call.op = "workout_planner" -> WorkoutBound(call.msg, call.info)

(* the last two calls are render_llm on the same valid Profile, the second  *)
(* less than ttl seconds after the first                                    *)
TwicePlan ==
    /\ prev.op = "render_llm" /\ last.op = "render_llm"
    /\ prev.info = last.info
    /\ ValidProfile(last.info)
    /\ last.at - prev.at < TTL

(* C1, as stated: render_llm called twice with the identical Profile, the   *)
(* second call within the TTL window of the first, returns the identical    *)
(* result both times and invokes the model exactly once across the two.     *)
C1_TwiceExactlyOnce ==
    TwicePlan => (last.ret = prev.ret /\ prev.calls + last.calls = 1)

(* C1, amended: when the first of the two calls was not served from the     *)
(* memo (it ran the body and stored the entry), both calls return the       *)
(* identical result, the second call invokes nothing and the model is       *)
(* invoked at most once across the two.                                     *)
C1_TwiceAtMostOnce ==
    (TwicePlan /\ ~prev.hit) =>
        (last.ret = prev.ret /\ last.calls = 0 /\ prev.calls + last.calls <= 1)

C1_Witness ==
    /\ TwicePlan /\ ~prev.hit /\ prev.calls = 1
    /\ last.at > prev.at
    /\ last.ret.kind = "text" /\ last.ret = prev.ret

(* C2: a call whose inputs were answered more than TTL ago sends exactly    *)
(* one fresh request to the model.                                          *)
C2_ExpiredCallsModelOnce ==
    (last.op \in Fns /\ ~last.hit /\ last.stale) => last.calls = 1

(* C3: a dispatch whose bound variables lack a placeholder of its template  *)
(* performs no model call and does not return a normal text result.         *)
C3_MissingVariableFails ==
    (last.op \in Fns /\ ~CanFormat(last.op, BoundOf(last))) =>
        (last.calls = 0 /\ last.ret.kind # "text")

(* C4: a run that used up the step budget ends with an error value, never  *)
(* with an answer text; the budget is never exceeded.                       *)
C4_BudgetExceededIsError ==
    /\ agentIter <= MaxIterations
    /\ (agentPc = "returned" /\ agentIter >= MaxIterations) => agentRet.kind = "error"

(* C5: the calculator returns the value of a well-formed expression, 4 for  *)
(* 2+2, and fails for a malformed one with an error outcome that is not a   *)
(* returned result.                                                         *)
C5_MalformedFails ==
    calcOut # Pending =>
        /\ calcIn = <<"2", "+", "2">> => calcOut = [status |-> "returned", value |-> PyInt(4)]
        /\ IF Eval(calcIn).raised
           THEN calcOut.status = "failed"
           ELSE calcOut = [status |-> "returned", value |-> Eval(calcIn).val]

(* C6: workout_planner binds exactly the Profile's fields other than        *)
(* country, with their values, plus the equipment; for a valid Profile      *)
(* these are name, age, sex, weight, height and goals; the caller's record  *)
(* is unchanged.                                                            *)
C6_WorkoutOmitsCountry ==
    /\ profile = InitialProfile
    /\ (last.op = "workout_planner" /\ ~last.hit) =>
          /\ "country" \notin DOMAIN lastBound
          /\ DOMAIN lastBound = ((DOMAIN profile[last.info]) \ {"country"}) \cup {"msg"}
          /\ lastBound["msg"] = last.msg
          /\ \A f \in (DOMAIN profile[last.info]) \ {"country"} :
                lastBound[f] = profile[last.info][f]
          /\ ValidProfile(last.info) =>
                DOMAIN lastBound =
                    {"name", "age", "sex", "weight", "height", "goals", "msg"}

C6_Witness ==
    /\ last.op = "workout_planner" /\ ~last.hit /\ last.calls = 1
    /\ ValidProfile(last.info)
    /\ "country" \in DOMAIN profile[last.info]
    /\ last.ret.kind = "text"

(* C7: a dispatch that missed the memo and whose model request failed made  *)
(* exactly one request and returns an error value carrying the cause.       *)
C7_FailureIsErrorValue ==
    (last.op \in Fns /\ ~last.hit /\ last.raised \in Causes) =>
        (last.calls = 1 /\ last.ret.kind = "error" /\ last.ret.of = <<last.raised>>)

C9_TextIsForInput ==
    (last.op \in {"render_llm", "summarizer"} /\ last.ret.kind = "text") =>
        /\ CanFormat(last.op, BoundOf(last))
        /\ last.ret.of = Format(last.op, BoundOf(last))

(* C10: after a dispatch that ended in a model failure, the next dispatch   *)
(* with the same inputs is not served from the memo: it sends the request   *)
(* again.                                                                   *)
C10_FailureNotCached ==
    (/\ prev.op \in Fns /\ ~prev.hit /\ prev.raised \in Causes
     /\ last.op = prev.op /\ last.msg = prev.msg /\ last.info = prev.info) =>
        (~last.hit /\ last.calls = 1)

====
